---- MODULE Spec2Model ----
(***************************************************************************)
(* State model of the forge tasks plugin (src/src/index.ts).               *)
(*                                                                         *)
(* The source file holds two deployments of the plugin:                    *)
(*   - the explicit-list, label-keyed one (lines 1-246): taskLists maps a  *)
(*     generated list id to a TaskList whose `tasks` is a plain JavaScript *)
(*     object keyed by label;                                              *)
(*   - the session-keyed, id-keyed one (lines 248-430): taskStore maps a   *)
(*     sessionId to an array of tasks with generated ids.                  *)
(* `variant` says which of the two is running.  Every HTTP handler is      *)
(* synchronous, so a handler is one atomic action.  `resp` holds the last  *)
(* request together with the response it got.                              *)
(*                                                                         *)
(* Plain objects (`{}`) are modelled with JavaScript's property semantics: *)
(* a read `obj[key]` finds own properties first and then the properties    *)
(* inherited from Object.prototype; Object.values enumerates the own       *)
(* properties, integer-like keys first in ascending numeric order and the  *)
(* other keys in creation order.                                           *)
(*                                                                         *)
(* Timestamps are the millisecond readings of `new Date()`; toISOString is *)
(* an order-preserving injective rendering of them and is not modelled.    *)
(***************************************************************************)
EXTENDS Integers, Sequences, FiniteSets, TLC

VARIABLES
    variant,        \* "list" (lines 1-246) or "session" (lines 248-430)
    taskLists,      \* explicit-list store: own properties of `taskLists`
    protoPolluted,  \* Object.prototype carries `status` and `updatedAt`
    taskStore,      \* session-keyed store: own properties of `taskStore`
    issued,         \* the identifiers uuidv4() has produced so far
    now,            \* last reading of the clock
    resp,           \* last request and its response
    calls           \* add_task requests in flight, one per client connection

vars == <<variant, taskLists, protoPolluted, taskStore, issued, now, resp, calls>>

\* ------------------------------------------------------------------ bounds
MaxTasks == 2   \* tasks held by the store at any time
MaxTime == 1    \* last reading of the clock

\* ------------------------------------------------------- JavaScript values
\* `!x` on a request field: undefined, null and "" are falsy.  The empty
\* string stands for every absent or empty field.
Truthy(s) == s # ""

\* Members every plain object inherits from Object.prototype (two
\* representatives: a method and the prototype accessor).
BuiltinKeys == {"constructor", "__proto__"}

\* Names readable on every plain object through the prototype chain.
InheritedKeys(polluted) ==
    BuiltinKeys \cup (IF polluted THEN {"status", "updatedAt"} ELSE {})

\* uuidv4() never repeats a value and never yields an inherited name.
Fresh(id) == id \notin issued /\ id \notin InheritedKeys(TRUE)

\* The readings `new Date()` can give after a reading of t.
Clock(t) == {u \in t..(t + 1) : u <= MaxTime}

\* Canonical array-index keys and their numeric value.
IsArrayIndex(key) == key \in {"2", "10"}

ToNumber(key) == CASE key = "2" -> 2 [] key = "10" -> 10 [] OTHER -> 0 - 1

\* ------------------------------------------------- explicit-list variant
\* `taskList.tasks` is the sequence of its own properties in creation order;
\* each holds its name `key` and the fields of the Task object stored there.
Property(key, task) ==
    [key |-> key, label |-> task.label, status |-> task.status,
     createdAt |-> task.createdAt, updatedAt |-> task.updatedAt]

\* The Task object an own property holds.
Value(property) ==
    [label |-> property.label, status |-> property.status,
     createdAt |-> property.createdAt, updatedAt |-> property.updatedAt]

HasOwnTask(tasks, label) == \E i \in 1..Len(tasks) : tasks[i].key = label

OwnTask(tasks, label) ==
    Value(tasks[CHOOSE i \in 1..Len(tasks) : tasks[i].key = label])

\* What `taskLists[taskListId]` evaluates to.
ListLookup(store, polluted, taskListId) ==
    IF taskListId \in DOMAIN store THEN "own"
    ELSE IF taskListId \in BuiltinKeys THEN "object"
    ELSE IF taskListId \in InheritedKeys(polluted) THEN "string"
    ELSE "undefined"

\* What `taskList.tasks[label]` evaluates to.
TaskLookup(tasks, polluted, label) ==
    IF HasOwnTask(tasks, label) THEN "own"
    ELSE IF label = "constructor" THEN "function"
    ELSE IF label = "__proto__" THEN "prototype"
    ELSE IF label \in InheritedKeys(polluted) THEN "string"
    ELSE "undefined"

\* Mutation of OwnerMismatch: a known list id is accepted from any session.
OwnerMismatchKnownId(store, kind, taskListId, sessionId) ==
    IF kind = "own" THEN FALSE ELSE TRUE

\* `taskList.sessionId !== context.sessionId`; an inherited value has no
\* sessionId, so the comparison is undefined !== sessionId.
OwnerMismatch(store, kind, taskListId, sessionId) ==
    IF kind = "own" THEN store[taskListId].sessionId # sessionId ELSE TRUE

\* Mutation of NewTask: the task is built with a fixed label.
NewTaskFixedLabel(label, t1, t2) ==
    [label |-> "task", status |-> "pending", createdAt |-> t1, updatedAt |-> t2]

NewTask(label, t1, t2) ==
    [label |-> label, status |-> "pending", createdAt |-> t1, updatedAt |-> t2]

\* Mutation of Completed: the status is toggled.
CompletedToggle(task, t) ==
    [task EXCEPT !.status = IF @ = "completed" THEN "pending" ELSE "completed",
                 !.updatedAt = t]

Completed(task, t) == [task EXCEPT !.status = "completed", !.updatedAt = t]

\* `taskList.tasks[label] = newTask`: a new property is created last, an
\* existing one keeps its place.
SetProperty(tasks, label, task) ==
    IF HasOwnTask(tasks, label)
    THEN [i \in 1..Len(tasks) |->
            IF tasks[i].key = label THEN Property(label, task) ELSE tasks[i]]
    ELSE Append(tasks, Property(label, task))

\* `task.status = ...; task.updatedAt = ...` on the own property `label`.
UpdateProperty(tasks, label, t) ==
    [i \in 1..Len(tasks) |->
        IF tasks[i].key = label THEN Completed(tasks[i], t) ELSE tasks[i]]

\* `delete taskList.tasks[label]`: removes an own property, ignores the rest.
DeleteProperty(tasks, label) == SelectSeq(tasks, LAMBDA t : t.key # label)

\* Object.values(tasks): integer-like keys ascending, then creation order.
ObjectValues(tasks) ==
    LET index == SelectSeq(tasks, LAMBDA t : IsArrayIndex(t.key))
        other == SelectSeq(tasks, LAMBDA t : ~IsArrayIndex(t.key))
        ordered == SortSeq(index, LAMBDA a, b : ToNumber(a.key) < ToNumber(b.key))
                        \o other
    IN  [i \in 1..Len(ordered) |-> Value(ordered[i])]

\* Mutation of AllComplete: `some` in place of `every`.
AllCompleteSome(tasksArray) ==
    \E i \in 1..Len(tasksArray) : tasksArray[i].status = "completed"

\* tasksArray.every(t => t.status === 'completed')
AllComplete(tasksArray) ==
    \A i \in 1..Len(tasksArray) : tasksArray[i].status = "completed"

\* Mutation of CheckAllBody: an empty list is reported as not complete.
CheckAllBodyNonEmpty(tasksArray) ==
    [kind |-> "bool", value |-> Len(tasksArray) > 0 /\ AllComplete(tasksArray)]

\* res.json(allComplete): the response is the bare boolean.
CheckAllBody(tasksArray) == [kind |-> "bool", value |-> AllComplete(tasksArray)]

\* ----------------------------------------------------------- responses
Error(message) == [kind |-> "error", error |-> message]

Reply(op, req, code, body) ==
    resp' = [op |-> op, req |-> req, code |-> code, body |-> body]

\* A request: context.sessionId and the args of either variant ("" = absent).
ListReq(sessionId, taskListId, label) ==
    [sessionId |-> sessionId, taskListId |-> taskListId, label |-> label,
     taskId |-> "", description |-> "", status |-> ""]

SessionReq(sessionId, taskId, description, status) ==
    [sessionId |-> sessionId, taskListId |-> "", label |-> "",
     taskId |-> taskId, description |-> description, status |-> status]

\* ---------------------------------------------------------------- Init
\* The connections on which the two racing add_task requests arrive.
Clients == {"c1", "c2"}

Init ==
    /\ variant \in {"list", "session"}
    /\ taskLists = <<>>
    /\ protoPolluted = FALSE
    /\ taskStore = <<>>
    /\ issued = {}
    /\ now = 0
    /\ resp = [op |-> "none", req |-> ListReq("", "", ""), code |-> 0,
               body |-> [kind |-> "empty"]]
    /\ calls = [c \in Clients |-> [pc |-> "idle", req |-> ListReq("", "", ""),
                                  code |-> 0]]

\* ------------------------------------------- explicit-list variant: handlers
\* Number of tasks in the explicit-list store.
RECURSIVE SumLen(_, _)
SumLen(store, ids) ==
    IF ids = {} THEN 0
    ELSE LET id == CHOOSE x \in ids : TRUE
         IN  Len(store[id].tasks) + SumLen(store, ids \ {id})

CreateTaskList(sessionId, newListId) ==
    LET req == ListReq(sessionId, "", "") IN
    /\ variant = "list"
    /\ IF ~Truthy(sessionId)
       THEN /\ Reply("create_task_list", req, 400, Error("Missing context.sessionId"))
            /\ UNCHANGED <<taskLists, issued, now>>
       ELSE \E t \in Clock(now) :
            /\ Fresh(newListId)
            /\ taskLists' = [id \in DOMAIN taskLists \cup {newListId} |->
                    IF id = newListId
                    THEN [id |-> newListId, sessionId |-> sessionId,
                          tasks |-> <<>>, createdAt |-> t]
                    ELSE taskLists[id]]
            /\ issued' = issued \cup {newListId}
            /\ now' = t
            /\ Reply("create_task_list", req, 200, [kind |-> "id", id |-> newListId])
    /\ UNCHANGED <<variant, protoPolluted, taskStore, calls>>

\* The checks shared by the handlers that take a taskListId (and a label):
\* the status and message of the first failing one, or 0 when all pass.
ResolveCode(sessionId, taskListId, label, needsLabel) ==
    IF ~Truthy(sessionId) THEN 400
    ELSE IF ~Truthy(taskListId) THEN 400
    ELSE IF needsLabel /\ ~Truthy(label) THEN 400
    ELSE IF ListLookup(taskLists, protoPolluted, taskListId) = "undefined" THEN 404
    ELSE IF OwnerMismatch(taskLists, ListLookup(taskLists, protoPolluted, taskListId),
                          taskListId, sessionId) THEN 403
    ELSE 0

ResolveError(op, sessionId, taskListId, label, needsLabel) ==
    IF ~Truthy(sessionId) THEN "Missing context.sessionId"
    ELSE IF ~Truthy(taskListId) THEN "Missing taskListId"
    ELSE IF needsLabel /\ ~Truthy(label) THEN "Missing label"
    ELSE IF ListLookup(taskLists, protoPolluted, taskListId) = "undefined"
         THEN "Task list not found"
    ELSE IF op = "add_task" THEN "Task list belongs to another session"
    ELSE "Access denied"

\* Mutation of SetTasks: every list shares one tasks object.
SetTasksShared(taskListId, tasks) ==
    taskLists' = [id \in DOMAIN taskLists |-> [taskLists[id] EXCEPT !.tasks = tasks]]

\* `taskList.tasks` of the named list after the handler's write.
SetTasks(taskListId, tasks) ==
    taskLists' = [taskLists EXCEPT ![taskListId].tasks = tasks]

AddTask(sessionId, taskListId, label) ==
    LET req == ListReq(sessionId, taskListId, label)
        code == ResolveCode(sessionId, taskListId, label, TRUE)
    IN
    /\ variant = "list"
    /\ IF code # 0
       THEN /\ Reply("add_task", req, code,
                     Error(ResolveError("add_task", sessionId, taskListId, label, TRUE)))
            /\ UNCHANGED <<taskLists, now>>
       ELSE IF TaskLookup(taskLists[taskListId].tasks, protoPolluted, label) # "undefined"
       THEN /\ Reply("add_task", req, 409, Error("Task already exists"))
            /\ UNCHANGED <<taskLists, now>>
       ELSE \E t1 \in Clock(now) : \E t2 \in Clock(t1) :
            LET newTask == NewTask(label, t1, t2) IN
            /\ SumLen(taskLists, DOMAIN taskLists) < MaxTasks
            /\ SetTasks(taskListId,
                        SetProperty(taskLists[taskListId].tasks, label, newTask))
            /\ now' = t2
            /\ Reply("add_task", req, 200, [kind |-> "task", task |-> newTask])
    /\ UNCHANGED <<variant, protoPolluted, taskStore, issued, calls>>

\* --------------------------------- add_task as the steps of the event loop
\* Express queues the callback of a request that has arrived.
Receive(c, sessionId, taskListId, label) ==
    /\ variant = "list"
    /\ calls[c].pc = "idle"
    /\ calls' = [calls EXCEPT ![c] = [pc |-> "queued",
                                      req |-> ListReq(sessionId, taskListId, label),
                                      code |-> 0]]
    /\ UNCHANGED <<variant, taskLists, protoPolluted, taskStore, issued, now, resp>>

\* Mutation of ThreadFree: the handler yields between its check and its
\* insert, as it would across an await.
ThreadFreeAlways(c) == TRUE

\* The callback is a synchronous function: once started it runs to its
\* response before the event loop starts another callback.
ThreadFree(c) == \A d \in Clients \ {c} : calls[d].pc # "checked"

\* add_task up to and including the existence check.
AddTaskCheck(c) ==
    LET req == calls[c].req
        code == ResolveCode(req.sessionId, req.taskListId, req.label, TRUE)
    IN
    /\ variant = "list"
    /\ calls[c].pc = "queued"
    /\ ThreadFree(c)
    /\ IF code # 0
       THEN /\ Reply("add_task", req, code,
                     Error(ResolveError("add_task", req.sessionId, req.taskListId,
                                        req.label, TRUE)))
            /\ calls' = [calls EXCEPT ![c].pc = "done", ![c].code = code]
       ELSE IF TaskLookup(taskLists[req.taskListId].tasks, protoPolluted, req.label)
                # "undefined"
       THEN /\ Reply("add_task", req, 409, Error("Task already exists"))
            /\ calls' = [calls EXCEPT ![c].pc = "done", ![c].code = 409]
       ELSE /\ SumLen(taskLists, DOMAIN taskLists) < MaxTasks
            /\ calls' = [calls EXCEPT ![c].pc = "checked"]
            /\ UNCHANGED resp
    /\ UNCHANGED <<variant, taskLists, protoPolluted, taskStore, issued, now>>

\* add_task from the construction of the task to the response.
AddTaskInsert(c) ==
    LET req == calls[c].req IN
    /\ variant = "list"
    /\ calls[c].pc = "checked"
    /\ ThreadFree(c)
    /\ \E t1 \in Clock(now) : \E t2 \in Clock(t1) :
          LET newTask == NewTask(req.label, t1, t2) IN
          /\ SetTasks(req.taskListId,
                      SetProperty(taskLists[req.taskListId].tasks, req.label, newTask))
          /\ now' = t2
          /\ Reply("add_task", req, 200, [kind |-> "task", task |-> newTask])
    /\ calls' = [calls EXCEPT ![c].pc = "done", ![c].code = 200]
    /\ UNCHANGED <<variant, protoPolluted, taskStore, issued>>

CompleteTask(sessionId, taskListId, label) ==
    LET req == ListReq(sessionId, taskListId, label)
        code == ResolveCode(sessionId, taskListId, label, TRUE)
        kind == TaskLookup(taskLists[taskListId].tasks, protoPolluted, label)
    IN
    /\ variant = "list"
    /\ IF code # 0
       THEN /\ Reply("complete_task", req, code,
                     Error(ResolveError("complete_task", sessionId, taskListId, label, TRUE)))
            /\ UNCHANGED <<taskLists, protoPolluted, now>>
       ELSE IF kind = "undefined"
       THEN /\ Reply("complete_task", req, 404, Error("Task not found"))
            /\ UNCHANGED <<taskLists, protoPolluted, now>>
       ELSE IF kind = "string"
       THEN \* strict-mode assignment to a property of a primitive: TypeError
            /\ Reply("complete_task", req, 500, Error("TypeError"))
            /\ UNCHANGED <<taskLists, protoPolluted, now>>
       ELSE \E t \in Clock(now) :
            /\ now' = t
            /\ IF kind = "own"
               THEN /\ SetTasks(taskListId,
                           UpdateProperty(taskLists[taskListId].tasks, label, t))
                    /\ UNCHANGED protoPolluted
                    /\ Reply("complete_task", req, 200,
                             [kind |-> "task",
                              task |-> Completed(OwnTask(taskLists[taskListId].tasks, label), t)])
               ELSE IF kind = "prototype"
               THEN \* the write lands on Object.prototype
                    /\ protoPolluted' = TRUE
                    /\ UNCHANGED taskLists
                    /\ Reply("complete_task", req, 200,
                             [kind |-> "object", status |-> "completed", updatedAt |-> t])
               ELSE \* the write lands on the Object constructor; a function
                    \* serialises to an empty body
                    /\ UNCHANGED <<taskLists, protoPolluted>>
                    /\ Reply("complete_task", req, 200, [kind |-> "empty"])
    /\ UNCHANGED <<variant, taskStore, issued, calls>>

\* Status of delete_task: the first failing check, or 200.
DeleteTaskCode(sessionId, taskListId, label) ==
    IF ResolveCode(sessionId, taskListId, label, TRUE) # 0
    THEN ResolveCode(sessionId, taskListId, label, TRUE)
    ELSE IF TaskLookup(taskLists[taskListId].tasks, protoPolluted, label) = "undefined"
    THEN 404
    ELSE 200

DeleteTask(sessionId, taskListId, label) ==
    LET req == ListReq(sessionId, taskListId, label)
        code == DeleteTaskCode(sessionId, taskListId, label)
    IN
    /\ variant = "list"
    /\ IF ResolveCode(sessionId, taskListId, label, TRUE) # 0
       THEN /\ Reply("delete_task", req, code,
                     Error(ResolveError("delete_task", sessionId, taskListId, label, TRUE)))
            /\ UNCHANGED taskLists
       ELSE IF code = 404
       THEN /\ Reply("delete_task", req, 404, Error("Task not found"))
            /\ UNCHANGED taskLists
       ELSE /\ SetTasks(taskListId, DeleteProperty(taskLists[taskListId].tasks, label))
            /\ Reply("delete_task", req, 200, [kind |-> "deleted", deleted |-> label])
    /\ UNCHANGED <<variant, protoPolluted, taskStore, issued, now, calls>>

ListTasks(sessionId, taskListId) ==
    LET req == ListReq(sessionId, taskListId, "")
        code == ResolveCode(sessionId, taskListId, "", FALSE)
    IN
    /\ variant = "list"
    /\ IF code # 0
       THEN Reply("list_tasks", req, code,
                  Error(ResolveError("list_tasks", sessionId, taskListId, "", FALSE)))
       ELSE Reply("list_tasks", req, 200,
                  [kind |-> "tasks", tasks |-> ObjectValues(taskLists[taskListId].tasks)])
    /\ UNCHANGED <<variant, taskLists, protoPolluted, taskStore, issued, now, calls>>

CheckAllTasksComplete(sessionId, taskListId) ==
    LET req == ListReq(sessionId, taskListId, "")
        code == ResolveCode(sessionId, taskListId, "", FALSE)
    IN
    /\ variant = "list"
    /\ IF code # 0
       THEN Reply("check_all_tasks_complete", req, code,
                  Error(ResolveError("check_all_tasks_complete", sessionId, taskListId, "", FALSE)))
       ELSE Reply("check_all_tasks_complete", req, 200,
                  CheckAllBody(ObjectValues(taskLists[taskListId].tasks)))
    /\ UNCHANGED <<variant, taskLists, protoPolluted, taskStore, issued, now, calls>>

\* ------------------------------------------------- session-keyed variant
\* What `taskStore[sessionId]` evaluates to.
StoreLookup(store, sessionId) ==
    IF sessionId \in DOMAIN store THEN "own"
    ELSE IF sessionId \in BuiltinKeys THEN "object"
    ELSE "undefined"

\* `taskStore[sessionId] || []`
TasksOrEmpty(store, sessionId) ==
    IF sessionId \in DOMAIN store THEN store[sessionId] ELSE <<>>

\* `args.status || 'pending'`
StatusOrPending(status) == IF Truthy(status) THEN status ELSE "pending"

NewSessionTask(id, description, status, t1, t2) ==
    [id |-> id, description |-> description, status |-> StatusOrPending(status),
     createdAt |-> t1, updatedAt |-> t2]

\* tasks.findIndex(t => t.id === taskId), 1-based; 0 stands for -1.
FindIndex(tasks, taskId) ==
    IF \E i \in 1..Len(tasks) : tasks[i].id = taskId
    THEN CHOOSE i \in 1..Len(tasks) :
            /\ tasks[i].id = taskId
            /\ \A j \in 1..(i - 1) : tasks[j].id # taskId
    ELSE 0

\* Mutation of Updated: the fields are written, updatedAt is not refreshed.
UpdatedStale(task, description, status, t) ==
    [task EXCEPT !.description = IF Truthy(description) THEN description ELSE @,
                 !.status = IF Truthy(status) THEN status ELSE @]

\* `if (args.description) ...; if (args.status) ...; task.updatedAt = now`
Updated(task, description, status, t) ==
    [task EXCEPT !.description = IF Truthy(description) THEN description ELSE @,
                 !.status = IF Truthy(status) THEN status ELSE @,
                 !.updatedAt = t]

\* tasks.filter(t => t.id !== taskId)
Filter(tasks, taskId) == SelectSeq(tasks, LAMBDA t : t.id # taskId)

\* `taskStore[sessionId] = tasks`
SetStore(sessionId, tasks) ==
    taskStore' = [k \in DOMAIN taskStore \cup {sessionId} |->
                    IF k = sessionId THEN tasks ELSE taskStore[k]]

\* Number of tasks in the session-keyed store.
RECURSIVE SumTasks(_, _)
SumTasks(store, keys) ==
    IF keys = {} THEN 0
    ELSE LET k == CHOOSE x \in keys : TRUE
         IN  Len(store[k]) + SumTasks(store, keys \ {k})

SessionAddTask(sessionId, description, status, newId) ==
    LET req == SessionReq(sessionId, "", description, status) IN
    /\ variant = "session"
    /\ IF ~Truthy(sessionId)
       THEN /\ Reply("add_task", req, 400, Error("Missing context.sessionId"))
            /\ UNCHANGED <<taskStore, issued, now>>
       ELSE IF ~Truthy(description)
       THEN /\ Reply("add_task", req, 400, Error("Missing args.description"))
            /\ UNCHANGED <<taskStore, issued, now>>
       ELSE IF StoreLookup(taskStore, sessionId) = "object"
       THEN \* an inherited member has no push: TypeError
            /\ Reply("add_task", req, 500, Error("TypeError"))
            /\ UNCHANGED <<taskStore, issued, now>>
       ELSE \E t1 \in Clock(now) : \E t2 \in Clock(t1) :
            LET newTask == NewSessionTask(newId, description, status, t1, t2) IN
            /\ Fresh(newId)
            /\ SumTasks(taskStore, DOMAIN taskStore) < MaxTasks
            /\ SetStore(sessionId, Append(TasksOrEmpty(taskStore, sessionId), newTask))
            /\ issued' = issued \cup {newId}
            /\ now' = t2
            /\ Reply("add_task", req, 200, [kind |-> "task", task |-> newTask])
    /\ UNCHANGED <<variant, taskLists, protoPolluted, calls>>

UpdateTask(sessionId, taskId, description, status) ==
    LET req == SessionReq(sessionId, taskId, description, status)
        tasks == TasksOrEmpty(taskStore, sessionId)
        taskIndex == FindIndex(tasks, taskId)
    IN
    /\ variant = "session"
    /\ IF ~Truthy(sessionId)
       THEN /\ Reply("update_task", req, 400, Error("Missing context.sessionId"))
            /\ UNCHANGED <<taskStore, now>>
       ELSE IF ~Truthy(taskId)
       THEN /\ Reply("update_task", req, 400, Error("Missing args.taskId"))
            /\ UNCHANGED <<taskStore, now>>
       ELSE IF StoreLookup(taskStore, sessionId) = "undefined"
       THEN /\ Reply("update_task", req, 404, Error("No tasks found for this session."))
            /\ UNCHANGED <<taskStore, now>>
       ELSE IF StoreLookup(taskStore, sessionId) = "object"
       THEN \* an inherited member has no findIndex: TypeError
            /\ Reply("update_task", req, 500, Error("TypeError"))
            /\ UNCHANGED <<taskStore, now>>
       ELSE IF taskIndex = 0
       THEN /\ Reply("update_task", req, 404, Error("Task not found"))
            /\ UNCHANGED <<taskStore, now>>
       ELSE \E t \in Clock(now) :
            LET task == Updated(tasks[taskIndex], description, status, t) IN
            /\ SetStore(sessionId, [tasks EXCEPT ![taskIndex] = task])
            /\ now' = t
            /\ Reply("update_task", req, 200, [kind |-> "task", task |-> task])
    /\ UNCHANGED <<variant, taskLists, protoPolluted, issued, calls>>

\* Mutation of SessionListTasks: the `|| []` default is written back to the
\* store.
SessionListTasksStores(sessionId) ==
    LET req == SessionReq(sessionId, "", "", "") IN
    /\ variant = "session"
    /\ IF ~Truthy(sessionId)
       THEN /\ Reply("list_tasks", req, 400, Error("Missing context.sessionId"))
            /\ UNCHANGED taskStore
       ELSE IF StoreLookup(taskStore, sessionId) = "object"
       THEN /\ Reply("list_tasks", req, 200, [kind |-> "empty"])
            /\ UNCHANGED taskStore
       ELSE /\ Reply("list_tasks", req, 200,
                     [kind |-> "tasks", tasks |-> TasksOrEmpty(taskStore, sessionId)])
            /\ SetStore(sessionId, TasksOrEmpty(taskStore, sessionId))
    /\ UNCHANGED <<variant, taskLists, protoPolluted, issued, now, calls>>

SessionListTasks(sessionId) ==
    LET req == SessionReq(sessionId, "", "", "") IN
    /\ variant = "session"
    /\ IF ~Truthy(sessionId)
       THEN Reply("list_tasks", req, 400, Error("Missing context.sessionId"))
       ELSE IF StoreLookup(taskStore, sessionId) = "object"
       THEN \* an inherited member is sent as it serialises
            Reply("list_tasks", req, 200, [kind |-> "empty"])
       ELSE Reply("list_tasks", req, 200,
                  [kind |-> "tasks", tasks |-> TasksOrEmpty(taskStore, sessionId)])
    /\ UNCHANGED <<variant, taskLists, protoPolluted, taskStore, issued, now, calls>>

\* Mutation of SessionDeleteCode: initLength is read after the filter, so the
\* length test always reports "not found".
SessionDeleteCodeLate(sessionId, taskId) ==
    IF ~Truthy(sessionId) \/ ~Truthy(taskId) THEN 400
    ELSE IF StoreLookup(taskStore, sessionId) = "undefined" THEN 404
    ELSE IF StoreLookup(taskStore, sessionId) = "object" THEN 500
    ELSE 404

\* Status of delete_task: the first failing check, or 200.
SessionDeleteCode(sessionId, taskId) ==
    IF ~Truthy(sessionId) \/ ~Truthy(taskId) THEN 400
    ELSE IF StoreLookup(taskStore, sessionId) = "undefined" THEN 404
    ELSE IF StoreLookup(taskStore, sessionId) = "object" THEN 500
    ELSE IF Len(Filter(taskStore[sessionId], taskId)) = Len(taskStore[sessionId])
    THEN 404
    ELSE 200

SessionDeleteTask(sessionId, taskId) ==
    LET req == SessionReq(sessionId, taskId, "", "")
        code == SessionDeleteCode(sessionId, taskId)
    IN
    /\ variant = "session"
    /\ IF ~Truthy(sessionId)
       THEN /\ Reply("delete_task", req, 400, Error("Missing context.sessionId"))
            /\ UNCHANGED taskStore
       ELSE IF ~Truthy(taskId)
       THEN /\ Reply("delete_task", req, 400, Error("Missing args.taskId"))
            /\ UNCHANGED taskStore
       ELSE IF StoreLookup(taskStore, sessionId) = "undefined"
       THEN /\ Reply("delete_task", req, 404, Error("No tasks found for this session."))
            /\ UNCHANGED taskStore
       ELSE IF StoreLookup(taskStore, sessionId) = "object"
       THEN \* an inherited member has no filter: TypeError
            /\ Reply("delete_task", req, 500, Error("TypeError"))
            /\ UNCHANGED taskStore
       ELSE \* the filtered array is stored before the length test
            /\ SetStore(sessionId, Filter(taskStore[sessionId], taskId))
            /\ IF code = 404
               THEN Reply("delete_task", req, 404, Error("Task not found"))
               ELSE Reply("delete_task", req, 200,
                          [kind |-> "deleted", deleted |-> taskId])
    /\ UNCHANGED <<variant, taskLists, protoPolluted, issued, now, calls>>

\* ------------------------------------------------------------ request inputs
\* Explicit-list variant, well-formed requests: two sessions, the list id
\* uuidv4() can produce, an id it never produces, three labels.
SessionIds == {"s1", "s2"}
NewListIds == {"L1"}
ListIds == {"L1", "L0"}
Labels == {"a", "2", "10"}

NextList ==
    \/ \E s \in SessionIds, id \in NewListIds : CreateTaskList(s, id)
    \/ \E s \in SessionIds, l \in ListIds, k \in Labels : AddTask(s, l, k)
    \/ \E s \in SessionIds, l \in ListIds, k \in Labels : CompleteTask(s, l, k)
    \/ \E s \in SessionIds, l \in ListIds, k \in Labels : DeleteTask(s, l, k)
    \/ \E s \in SessionIds, l \in ListIds : ListTasks(s, l)
    \/ \E s \in SessionIds, l \in ListIds : CheckAllTasksComplete(s, l)

\* Requests whose taskListId or label names a property every plain object
\* inherits, or one that complete_task can put on Object.prototype.
KeySessionIds == {"s1"}
KeyListIds == {"L1", "constructor"}
KeyLabels == {"a", "status", "constructor", "__proto__"}

NextKeys ==
    \/ \E s \in KeySessionIds, id \in NewListIds : CreateTaskList(s, id)
    \/ \E s \in KeySessionIds, l \in KeyListIds, k \in KeyLabels : AddTask(s, l, k)
    \/ \E s \in KeySessionIds, l \in KeyListIds, k \in KeyLabels : CompleteTask(s, l, k)
    \/ \E s \in KeySessionIds, l \in KeyListIds, k \in KeyLabels : DeleteTask(s, l, k)
    \/ \E s \in KeySessionIds, l \in KeyListIds : ListTasks(s, l)
    \/ \E s \in KeySessionIds, l \in KeyListIds : CheckAllTasksComplete(s, l)

\* Session-keyed variant: two sessions, the task ids uuidv4() can produce and
\* one it never produces, two descriptions, an absent and two given statuses.
NewTaskIds == {"T1", "T2"}
TaskIds == {"T1", "T2", "T0"}
Descriptions == {"d1", "d2"}
Statuses == {"", "pending", "completed"}

NextSession ==
    \/ \E s \in SessionIds, d \in Descriptions, st \in Statuses, id \in NewTaskIds :
            SessionAddTask(s, d, st, id)
    \/ \E s \in SessionIds, id \in TaskIds, d \in Descriptions \cup {""}, st \in Statuses :
            UpdateTask(s, id, d, st)
    \/ \E s \in SessionIds : SessionListTasks(s)
    \/ \E s \in SessionIds, id \in TaskIds : SessionDeleteTask(s, id)

\* Requests with absent arguments, in either variant, next to well-formed
\* ones and to an inherited name.
ArgSessionIds == {"", "s1", "s2"}
ArgListIds == {"", "L1", "L0", "constructor"}
ArgLabels == {"", "a", "constructor"}
ArgTaskIds == {"", "T1", "T0"}
ArgDescriptions == {"", "d1", "d2"}
ArgStatuses == {"", "completed"}

NextArgs ==
    \/ \E s \in ArgSessionIds, id \in NewListIds : CreateTaskList(s, id)
    \/ \E s \in ArgSessionIds, l \in ArgListIds, k \in ArgLabels : AddTask(s, l, k)
    \/ \E s \in ArgSessionIds, l \in ArgListIds, k \in ArgLabels : CompleteTask(s, l, k)
    \/ \E s \in ArgSessionIds, l \in ArgListIds, k \in ArgLabels : DeleteTask(s, l, k)
    \/ \E s \in ArgSessionIds, l \in ArgListIds : ListTasks(s, l)
    \/ \E s \in ArgSessionIds, l \in ArgListIds : CheckAllTasksComplete(s, l)
    \/ \E s \in ArgSessionIds, d \in ArgDescriptions, st \in ArgStatuses,
            id \in NewTaskIds : SessionAddTask(s, d, st, id)
    \/ \E s \in ArgSessionIds, id \in ArgTaskIds, d \in ArgDescriptions,
            st \in ArgStatuses : UpdateTask(s, id, d, st)
    \/ \E s \in ArgSessionIds : SessionListTasks(s)
    \/ \E s \in ArgSessionIds, id \in ArgTaskIds : SessionDeleteTask(s, id)

\* Session-keyed variant with a sessionId that names an inherited property.
KeyedSessionIds == {"s1", "constructor"}

NextSessionKeys ==
    \/ \E s \in KeyedSessionIds, d \in Descriptions, st \in Statuses, id \in NewTaskIds :
            SessionAddTask(s, d, st, id)
    \/ \E s \in KeyedSessionIds, id \in TaskIds, d \in Descriptions \cup {""},
            st \in Statuses : UpdateTask(s, id, d, st)
    \/ \E s \in KeyedSessionIds : SessionListTasks(s)
    \/ \E s \in KeyedSessionIds, id \in TaskIds : SessionDeleteTask(s, id)

\* Explicit-list variant with two lists (SpecTwo runs it next to the
\* session-keyed variant with its two sessions).
TwoListIds == {"L1", "L2"}
TwoLabels == {"a", "__proto__"}

NextTwo ==
    \/ \E s \in SessionIds, id \in TwoListIds : CreateTaskList(s, id)
    \/ \E s \in SessionIds, l \in TwoListIds, k \in TwoLabels : AddTask(s, l, k)
    \/ \E s \in SessionIds, l \in TwoListIds, k \in TwoLabels : CompleteTask(s, l, k)
    \/ \E s \in SessionIds, l \in TwoListIds, k \in TwoLabels : DeleteTask(s, l, k)
    \/ \E s \in SessionIds, l \in TwoListIds : ListTasks(s, l)
    \/ \E s \in SessionIds, l \in TwoListIds : CheckAllTasksComplete(s, l)

\* Two add_task requests in flight at once on the explicit-list variant.
RaceLabels == {"a", "b", "constructor"}

NextRace ==
    \/ \E s \in SessionIds, id \in NewListIds :
            (\A c \in Clients : ThreadFree(c)) /\ CreateTaskList(s, id)
    \/ \E c \in Clients, s \in SessionIds, l \in ListIds, k \in RaceLabels :
            Receive(c, s, l, k)
    \/ \E c \in Clients : AddTaskCheck(c)
    \/ \E c \in Clients : AddTaskInsert(c)

Next == NextList \/ NextSession

Spec == Init /\ [][Next]_vars

InitList == Init /\ variant = "list"

SpecKeys == InitList /\ [][NextKeys]_vars

SpecRace == InitList /\ [][NextRace]_vars

SpecTwo == Init /\ [][NextTwo \/ NextSession]_vars

SpecArgs == Init /\ [][NextArgs]_vars

InitSession == Init /\ variant = "session"

SpecSessionKeys == InitSession /\ [][NextSessionKeys]_vars

\* ===================================================================
\* Properties
\* ===================================================================
ListOps == {"add_task", "complete_task", "delete_task", "list_tasks",
            "check_all_tasks_complete"}
LabelOps == {"add_task", "complete_task", "delete_task"}

\* The request r names every argument its operation requires.
WellFormed(op, r) ==
    /\ Truthy(r.sessionId)
    /\ Truthy(r.taskListId)
    /\ op \in LabelOps => Truthy(r.label)

\* The request r addresses a list that exists in `store` and r's session owns it.
Owned(store, r) ==
    /\ r.taskListId \in DOMAIN store
    /\ store[r.taskListId].sessionId = r.sessionId

\* The request r addresses a list that exists in `store` under another session.
Foreign(store, r) ==
    /\ Truthy(r.sessionId)
    /\ r.taskListId \in DOMAIN store
    /\ store[r.taskListId].sessionId # r.sessionId

Range(seq) == {seq[i] : i \in 1..Len(seq)}

\* C1: explicit-list variant: an operation that session S2 addresses at a
\* list created under another session fails with Forbidden (403) when it
\* names its arguments, and in every case returns an error body (none of the
\* list's tasks or completion state) and leaves the store unchanged.
C1_OwnershipIsolation ==
    [][ (variant = "list" /\ resp'.op \in ListOps /\ Foreign(taskLists, resp'.req))
        => /\ resp'.body.kind = "error"
           /\ taskLists' = taskLists
           /\ WellFormed(resp'.op, resp'.req) => resp'.code = 403 ]_vars

\* Witness of C1: a foreign session has just been refused complete_task on a
\* list that holds a pending task.
C1_Witness ==
    /\ variant = "list"
    /\ resp.op = "complete_task"
    /\ resp.code = 403
    /\ Foreign(taskLists, resp.req)
    /\ HasOwnTask(taskLists[resp.req.taskListId].tasks, resp.req.label)
    /\ OwnTask(taskLists[resp.req.taskListId].tasks, resp.req.label).status = "pending"

\* C2: explicit-list variant: a request naming its arguments fails with
\* "list not found" exactly when its taskListId was never produced by
\* create_task_list, and with Forbidden exactly when that list exists under
\* another session.
C2_Resolution ==
    (variant = "list" /\ resp.op \in ListOps /\ WellFormed(resp.op, resp.req))
    => /\ (resp.code = 404 /\ resp.body = Error("Task list not found"))
            <=> resp.req.taskListId \notin issued
       /\ resp.code = 403 <=> Foreign(taskLists, resp.req)

\* C3: label-keyed add_task on a list the caller owns fails with Conflict
\* (409) exactly when a task with that label is in the list, and a Conflict
\* leaves the store unchanged.
C3_ConflictIffPresent ==
    [][ (variant = "list" /\ resp'.op = "add_task"
            /\ WellFormed("add_task", resp'.req) /\ Owned(taskLists, resp'.req))
        => /\ resp'.code = 409
                <=> HasOwnTask(taskLists[resp'.req.taskListId].tasks, resp'.req.label)
           /\ resp'.code = 409 => taskLists' = taskLists ]_vars

\* What list_tasks returns for the list that request r addresses.
Listing(lists, store, r) ==
    IF variant = "list"
    THEN ObjectValues(lists[r.taskListId].tasks)
    ELSE TasksOrEmpty(store, r.sessionId)

\* The empty listing of a list that add_task is about to create.
ListingBefore(lists, store, r) ==
    IF variant = "list" \/ r.sessionId \in DOMAIN store
    THEN Listing(lists, store, r)
    ELSE <<>>

\* C4: both variants: a task created by a successful add_task has status
\* pending whatever the request's arguments, and list_tasks on that list
\* then returns the tasks it returned before plus exactly the new task.
C4_AddedTaskPending ==
    [][ (resp'.op = "add_task" /\ resp'.code = 200)
        => /\ resp'.body.task.status = "pending"
           /\ Range(Listing(taskLists', taskStore', resp'.req))
                = Range(ListingBefore(taskLists, taskStore, resp'.req))
                    \cup {resp'.body.task}
           /\ Len(Listing(taskLists', taskStore', resp'.req))
                = Len(ListingBefore(taskLists, taskStore, resp'.req)) + 1 ]_vars

\* C5: both variants: a task whose status is completed keeps that status in
\* every later state in which it is still present.
C5_CompletedStaysCompleted ==
    [][ /\ \A l \in DOMAIN taskLists : \A i \in 1..Len(taskLists[l].tasks) :
            LET task == taskLists[l].tasks[i] IN
            (task.status = "completed" /\ HasOwnTask(taskLists'[l].tasks, task.label))
            => OwnTask(taskLists'[l].tasks, task.label).status = "completed"
        /\ \A k \in DOMAIN taskStore : \A i \in 1..Len(taskStore[k]) :
            LET task == taskStore[k][i] IN
            (task.status = "completed" /\ FindIndex(taskStore'[k], task.id) # 0)
            => taskStore'[k][FindIndex(taskStore'[k], task.id)].status = "completed"
      ]_vars

\* C6: complete_task on a list the caller owns fails with NotFound (404) and
\* changes nothing when no task with that label is in the list; otherwise it
\* succeeds, whether the task was pending or already completed, leaves the
\* task completed and returns it.
C6_CompleteTask ==
    [][ (variant = "list" /\ resp'.op = "complete_task"
            /\ WellFormed("complete_task", resp'.req) /\ Owned(taskLists, resp'.req))
        => IF HasOwnTask(taskLists[resp'.req.taskListId].tasks, resp'.req.label)
           THEN /\ resp'.code = 200
                /\ resp'.body.kind = "task"
                /\ resp'.body.task.status = "completed"
                /\ resp'.body.task
                    = OwnTask(taskLists'[resp'.req.taskListId].tasks, resp'.req.label)
           ELSE /\ resp'.code = 404
                /\ taskLists' = taskLists /\ protoPolluted' = protoPolluted ]_vars

\* C7: check_all_tasks_complete on a list the caller owns reports true
\* exactly when every task in the list has status completed (so true for a
\* list without tasks).
C7_AllCompleteIffEveryCompleted ==
    (variant = "list" /\ resp.op = "check_all_tasks_complete" /\ Owned(taskLists, resp.req))
    => LET tasks == taskLists[resp.req.taskListId].tasks IN
       /\ resp.code = 200
       /\ resp.body.value
            = (\A i \in 1..Len(tasks) : tasks[i].status = "completed")

\* Witness of C7: two tasks were added, one is completed, and the check has
\* just answered false.
C7_Witness ==
    /\ variant = "list"
    /\ resp.op = "check_all_tasks_complete"
    /\ resp.code = 200
    /\ resp.body.value = FALSE
    /\ LET tasks == taskLists[resp.req.taskListId].tasks IN
       /\ Len(tasks) = 2
       /\ \E i, j \in 1..2 :
            tasks[i].status = "completed" /\ tasks[j].status = "pending"

\* Labels of the tasks that are not completed, in insertion order.
Remaining(tasks) ==
    LET open == SelectSeq(tasks, LAMBDA t : t.status # "completed")
    IN  [i \in 1..Len(open) |-> open[i].label]

\* C8 as stated: the result of check_all_tasks_complete carries `remaining`,
\* the labels of the tasks that are not completed in insertion order, and
\* allComplete holds exactly when `remaining` is empty.
C8_ResultCarriesRemaining ==
    (variant = "list" /\ resp.op = "check_all_tasks_complete" /\ resp.code = 200)
    => /\ resp.body.kind = "aggregate"
       /\ resp.body.remaining = Remaining(taskLists[resp.req.taskListId].tasks)
       /\ resp.body.allComplete <=> resp.body.remaining = <<>>

\* C8 amended: the result of check_all_tasks_complete is the bare boolean
\* allComplete, without `remaining`; it holds exactly when the sequence of
\* labels of the tasks that are not completed is empty.
C8_BareBooleanIffNoneRemaining ==
    (variant = "list" /\ resp.op = "check_all_tasks_complete" /\ resp.code = 200)
    => resp.body = [kind |-> "bool",
                    value |-> Remaining(taskLists[resp.req.taskListId].tasks) = <<>>]

\* Witness of C8: the check has just answered true on a list whose two tasks
\* are both completed.
C8_Witness ==
    /\ variant = "list"
    /\ resp.op = "check_all_tasks_complete"
    /\ resp.code = 200
    /\ resp.body.value = TRUE
    /\ Len(taskLists[resp.req.taskListId].tasks) = 2
    /\ Remaining(taskLists[resp.req.taskListId].tasks) = <<>>

\* Status a delete_task repeating request r would get in the current state.
RepeatedDeleteCode(r) ==
    IF variant = "list"
    THEN DeleteTaskCode(r.sessionId, r.taskListId, r.label)
    ELSE SessionDeleteCode(r.sessionId, r.taskId)

\* The task that delete_task request r names is in the store.
TaskPresent(lists, store, r) ==
    IF variant = "list"
    THEN /\ WellFormed("delete_task", r) /\ Owned(lists, r)
         /\ HasOwnTask(lists[r.taskListId].tasks, r.label)
    ELSE /\ r.sessionId \in DOMAIN store
         /\ FindIndex(store[r.sessionId], r.taskId) # 0

\* C9: both variants: delete_task on an existing task succeeds, removes
\* exactly that task and leaves every other task unchanged, and the same
\* delete_task repeated then fails with NotFound (404).
C9_DeleteThenNotFound ==
    [][ (resp'.op = "delete_task" /\ TaskPresent(taskLists, taskStore, resp'.req))
        => /\ resp'.code = 200
           /\ IF variant = "list"
              THEN taskLists' = [taskLists EXCEPT ![resp'.req.taskListId].tasks =
                        SelectSeq(@, LAMBDA t : t.label # resp'.req.label)]
              ELSE taskStore' = [taskStore EXCEPT ![resp'.req.sessionId] =
                        SelectSeq(@, LAMBDA t : t.id # resp'.req.taskId)]
           /\ RepeatedDeleteCode(resp.req)' = 404 ]_vars

\* The tasks of a list in the order in which they were added.
InsertionOrder(tasks) == [i \in 1..Len(tasks) |-> Value(tasks[i])]

\* C10: list_tasks succeeds on every list the caller owns and returns the
\* tasks present in the order in which each was last added.
C10_ListInInsertionOrder ==
    /\ (variant = "list" /\ resp.op = "list_tasks" /\ Owned(taskLists, resp.req))
        => /\ resp.code = 200
           /\ resp.body.tasks = InsertionOrder(taskLists[resp.req.taskListId].tasks)
    /\ (variant = "session" /\ resp.op = "list_tasks" /\ Truthy(resp.req.sessionId))
        => /\ resp.code = 200
           /\ resp.body.tasks = TasksOrEmpty(taskStore, resp.req.sessionId)

\* The response is one of the typed failures.
IsFailure(r) == r.code \in {400, 403, 404, 409}

\* C12: both variants: an operation that returns a failure (MissingContext,
\* MissingArgument, NotFound, Forbidden, Conflict) leaves the whole store as
\* it was: the same lists, tasks, order, statuses and timestamps.
C12_FailureChangesNothing ==
    [][ IsFailure(resp')
        => /\ taskLists' = taskLists
           /\ taskStore' = taskStore
           /\ protoPolluted' = protoPolluted ]_vars

\* Witness of C12: session-keyed delete_task has just failed with "task not
\* found" for a session that holds a task.
C12_Witness ==
    /\ variant = "session"
    /\ resp.op = "delete_task"
    /\ resp.code = 404
    /\ resp.req.sessionId \in DOMAIN taskStore
    /\ Len(taskStore[resp.req.sessionId]) > 0

\* C16: explicit-list variant: the first failing check, in the order
\* sessionId, taskListId, label, list exists, list owned, task, decides the
\* response.
C16_ValidationPrecedence ==
    (variant = "list" /\ resp.op \in ListOps)
    => IF ~Truthy(resp.req.sessionId)
       THEN resp.code = 400 /\ resp.body = Error("Missing context.sessionId")
       ELSE IF ~Truthy(resp.req.taskListId)
       THEN resp.code = 400 /\ resp.body = Error("Missing taskListId")
       ELSE IF resp.op \in LabelOps /\ ~Truthy(resp.req.label)
       THEN resp.code = 400 /\ resp.body = Error("Missing label")
       ELSE IF resp.req.taskListId \notin issued
       THEN resp.code = 404 /\ resp.body = Error("Task list not found")
       ELSE IF taskLists[resp.req.taskListId].sessionId # resp.req.sessionId
       THEN resp.code = 403
       ELSE resp.code \in {200, 409}
            \/ (resp.code = 404 /\ resp.body = Error("Task not found"))

\* The session's list holds a task with this id.
HasSessionTask(store, sessionId, taskId) ==
    /\ sessionId \in DOMAIN store
    /\ \E i \in 1..Len(store[sessionId]) : store[sessionId][i].id = taskId

\* C13: update_task with a sessionId and a taskId: when the session holds the
\* task, only the fields present in the request change, id and createdAt and
\* the omitted fields stay, updatedAt becomes the current time and every
\* other task stays as it was; when the session holds no such task the
\* request fails with NotFound.
C13_PartialUpdate ==
    [][ ( /\ variant = "session"
          /\ resp'.op = "update_task"
          /\ Truthy(resp'.req.sessionId)
          /\ Truthy(resp'.req.taskId) )
        => LET r == resp'.req IN
           IF HasSessionTask(taskStore, r.sessionId, r.taskId)
           THEN /\ resp'.code = 200
                /\ DOMAIN taskStore' = DOMAIN taskStore
                /\ \A s \in DOMAIN taskStore \ {r.sessionId} :
                        taskStore'[s] = taskStore[s]
                /\ Len(taskStore'[r.sessionId]) = Len(taskStore[r.sessionId])
                /\ \A i \in 1..Len(taskStore[r.sessionId]) :
                        LET old == taskStore[r.sessionId][i]
                            new == taskStore'[r.sessionId][i]
                        IN  IF old.id = r.taskId
                            THEN /\ new.id = old.id
                                 /\ new.createdAt = old.createdAt
                                 /\ new.description =
                                        IF Truthy(r.description)
                                        THEN r.description ELSE old.description
                                 /\ new.status =
                                        IF Truthy(r.status)
                                        THEN r.status ELSE old.status
                                 /\ new.updatedAt = now'
                            ELSE new = old
           ELSE /\ resp'.code = 404
                /\ taskStore' = taskStore ]_vars

\* C14: list_tasks and check_all_tasks_complete never change the store,
\* whether they succeed or fail; list_tasks for a session without an entry
\* creates none.
C14_ReadsChangeNothing ==
    [][ resp'.op \in {"list_tasks", "check_all_tasks_complete"}
        => /\ taskLists' = taskLists
           /\ taskStore' = taskStore
           /\ protoPolluted' = protoPolluted ]_vars

\* Witness of C14: list_tasks has just answered for a session that has no
\* entry while another session holds a task.
C14_Witness ==
    /\ variant = "session"
    /\ resp.op = "list_tasks"
    /\ resp.code = 200
    /\ resp.req.sessionId \notin DOMAIN taskStore
    /\ \E s \in DOMAIN taskStore : Len(taskStore[s]) > 0

\* The tasks a response carries.
Returned(r) ==
    IF r.body.kind = "task" THEN {r.body.task}
    ELSE IF r.body.kind = "tasks" THEN Range(r.body.tasks)
    ELSE {}

\* C17: session-keyed variant: a request of session S2 neither returns nor
\* changes a task of another session S1, and update_task or delete_task by
\* S2 naming the id of a task of S1 fails with NotFound.
C17_SessionIsolation ==
    [][ (variant = "session" /\ Truthy(resp'.req.sessionId))
        => \A s1 \in DOMAIN taskStore \ {resp'.req.sessionId} :
              /\ s1 \in DOMAIN taskStore'
              /\ taskStore'[s1] = taskStore[s1]
              /\ Returned(resp') \cap Range(taskStore[s1]) = {}
              /\ ( /\ resp'.op \in {"update_task", "delete_task"}
                    /\ HasSessionTask(taskStore, s1, resp'.req.taskId) )
                 => resp'.code = 404 ]_vars

\* Every stored task was created no later than it was last updated.
TimestampsOrdered ==
    /\ \A l \in DOMAIN taskLists : \A i \in 1..Len(taskLists[l].tasks) :
          taskLists[l].tasks[i].createdAt <= taskLists[l].tasks[i].updatedAt
    /\ \A s \in DOMAIN taskStore : \A i \in 1..Len(taskStore[s]) :
          taskStore[s][i].createdAt <= taskStore[s][i].updatedAt

\* C18: both variants: createdAt <= updatedAt for every stored task, no step
\* changes a task's createdAt, and a step that changes a task's status or
\* description sets its updatedAt to the current time in the same step.
C18_Timestamps ==
    [][ /\ TimestampsOrdered'
        /\ \A l \in DOMAIN taskLists \cap DOMAIN taskLists' :
             \A i \in 1..Len(taskLists[l].tasks), j \in 1..Len(taskLists'[l].tasks) :
                LET old == taskLists[l].tasks[i]
                    new == taskLists'[l].tasks[j]
                IN  old.label = new.label
                    => /\ new.createdAt = old.createdAt
                       /\ new.status # old.status => new.updatedAt = now'
        /\ \A s \in DOMAIN taskStore \cap DOMAIN taskStore' :
             \A i \in 1..Len(taskStore[s]), j \in 1..Len(taskStore'[s]) :
                LET old == taskStore[s][i]
                    new == taskStore'[s][j]
                IN  old.id = new.id
                    => /\ new.createdAt = old.createdAt
                       /\ (new.status # old.status
                            \/ new.description # old.description)
                          => new.updatedAt = now' ]_vars

\* Witness of C18: update_task has just set a status at a time later than
\* the task's creation.
C18_Witness ==
    /\ variant = "session"
    /\ resp.op = "update_task"
    /\ resp.code = 200
    /\ Truthy(resp.req.status)
    /\ resp.body.task.createdAt < resp.body.task.updatedAt
    /\ resp.body.task.updatedAt = now

\* C19: an operation addressed at one list (session-keyed variant: at one
\* sessionId) leaves every other list as it was; create_task_list adds one
\* list under an id not used before, with no tasks and the caller's
\* sessionId, and changes no existing list; no operation removes a list or
\* changes a list's sessionId.
C19_OtherListsUnchanged ==
    [][ /\ \A l \in DOMAIN taskLists :
              /\ l \in DOMAIN taskLists'
              /\ taskLists'[l].sessionId = taskLists[l].sessionId
              /\ (resp'.op = "create_task_list" \/ l # resp'.req.taskListId)
                 => taskLists'[l] = taskLists[l]
        /\ IF resp'.op = "create_task_list" /\ resp'.code = 200
           THEN \E id \in DOMAIN taskLists' \ (DOMAIN taskLists \cup issued) :
                   /\ DOMAIN taskLists' = DOMAIN taskLists \cup {id}
                   /\ taskLists'[id].tasks = <<>>
                   /\ taskLists'[id].sessionId = resp'.req.sessionId
           ELSE DOMAIN taskLists' = DOMAIN taskLists
        /\ \A s \in DOMAIN taskStore \ {resp'.req.sessionId} :
              /\ s \in DOMAIN taskStore'
              /\ taskStore'[s] = taskStore[s] ]_vars

\* Witness of C19: a task has just been added to one list while another
\* list holds a task.
C19_Witness ==
    /\ resp.op = "add_task"
    /\ resp.code = 200
    /\ \E l \in DOMAIN taskLists :
          l # resp.req.taskListId /\ Len(taskLists[l].tasks) > 0

\* What check_all_tasks_complete reports for the list to its owner.
ReportsComplete(lists, l) == AllComplete(ObjectValues(lists[l].tasks))

\* C20: explicit-list variant: a list that check_all_tasks_complete reports
\* complete stays so until a successful add_task on that list, and a list
\* reported incomplete becomes complete only through a successful
\* complete_task or delete_task on that list.
C20_CompletionMonotone ==
    [][ \A l \in DOMAIN taskLists :
          /\ (ReportsComplete(taskLists, l) /\ ~ReportsComplete(taskLists', l))
             => /\ resp'.op = "add_task"
                /\ resp'.code = 200
                /\ resp'.req.taskListId = l
          /\ (~ReportsComplete(taskLists, l) /\ ReportsComplete(taskLists', l))
             => /\ resp'.op \in {"complete_task", "delete_task"}
                /\ resp'.code = 200
                /\ resp'.req.taskListId = l ]_vars

\* Witness of C20: complete_task has just succeeded on a list that is now
\* complete while another list is incomplete.
C20_Witness ==
    /\ resp.op = "complete_task"
    /\ resp.code = 200
    /\ resp.req.taskListId \in DOMAIN taskLists
    /\ Len(taskLists[resp.req.taskListId].tasks) > 0
    /\ ReportsComplete(taskLists, resp.req.taskListId)
    /\ \E l \in DOMAIN taskLists : ~ReportsComplete(taskLists, l)

\* Both racing requests have been answered, they name the same list and the
\* same label, and each found the list and its owner.
RaceOver ==
    /\ \A c \in Clients : calls[c].pc = "done" /\ calls[c].code \in {200, 409}
    /\ \A c, d \in Clients : calls[c].req = calls[d].req

\* C11: two add_task requests in flight at once for one label that the list
\* does not hold: under every interleaving one of them succeeds, the other
\* fails with Conflict, and the list ends with one task of that label.
C11_OneOfTwoAddsWins ==
    RaceOver
    => LET r == calls["c1"].req IN
       /\ {calls[c].code : c \in Clients} = {200, 409}
       /\ Cardinality({i \in 1..Len(taskLists[r.taskListId].tasks) :
                         taskLists[r.taskListId].tasks[i].label = r.label}) = 1

\* C15: explicit-list variant: the task stored under key k has label k;
\* both variants: no two tasks of one list share an identity (label, or id
\* in the session-keyed variant).
C15_KeyIsLabelAndIdentitiesDistinct ==
    /\ \A l \in DOMAIN taskLists :
          LET tasks == taskLists[l].tasks IN
          /\ \A i \in 1..Len(tasks) : tasks[i].key = tasks[i].label
          /\ \A i, j \in 1..Len(tasks) : i # j => tasks[i].label # tasks[j].label
    /\ \A s \in DOMAIN taskStore :
          \A i, j \in 1..Len(taskStore[s]) :
             i # j => taskStore[s][i].id # taskStore[s][j].id

\* Witness of C15: a collection holds two tasks, one of them written after
\* it was added.
C15_Witness ==
    /\ resp.op \in {"complete_task", "update_task"}
    /\ resp.code = 200
    /\ \/ \E l \in DOMAIN taskLists : Len(taskLists[l].tasks) = 2
       \/ \E s \in DOMAIN taskStore : Len(taskStore[s]) = 2
====
